---- MODULE Spec2Model ----
(***************************************************************************)
(* A model of jiraclient.py: one run of the command-line client, from the  *)
(* authentication check of Jiraclient.run to its return, fatal exit or     *)
(* uncaught exception.                                                      *)
(*                                                                         *)
(* Python strings are sequences of one-character strings, so that          *)
(* lower(), split(','), int(), str(), base64 and the duration pattern are  *)
(* computed on the characters.  None is a sequence that is no string.      *)
(*                                                                         *)
(* What is left out: parse_args, prepare_logger and read_config (a run     *)
(* starts with the options they leave, user and jiraurl set, the defaults  *)
(* of read_issue_defaults merged in); replies that are no JSON; and        *)
(* modify_issue, which run never reaches (it returns before, line 926).    *)
(* A reply is "ok", "unauthorized" (restkit's Unauthorized) or "error"     *)
(* (any other exception of the call).                                      *)
(***************************************************************************)
EXTENDS Integers, Sequences, FiniteSets, TLC

----------------------------------------------------------------------------
(* Bounds of the inputs. *)

\* longest spent / remaining value drawn
MaxDurLen == 3
\* most comma-separated tokens in one option value
MaxTokens == 2
\* most items in a remote listing whose content is drawn
MaxItems == 2

----------------------------------------------------------------------------
(* Strings. *)

None == <<"<None>">>

Digits == <<"0","1","2","3","4","5","6","7","8","9">>

UpperChars == <<"A","B","C","D","E","F","G","H","I","J","K","L","M",
                "N","O","P","Q","R","S","T","U","V","W","X","Y","Z">>

LowerChars == <<"a","b","c","d","e","f","g","h","i","j","k","l","m",
                "n","o","p","q","r","s","t","u","v","w","x","y","z">>

IndexOf(seq, c) == CHOOSE i \in 1..Len(seq) : seq[i] = c

InSeq(seq, c) == \E i \in 1..Len(seq) : seq[i] = c

LowerChar(c) == IF InSeq(UpperChars, c) THEN LowerChars[IndexOf(UpperChars, c)] ELSE c

\* str.lower()
Lower(s) == [i \in 1..Len(s) |-> LowerChar(s[i])]

RECURSIVE Split(_)
\* str.split(',')
Split(s) ==
  IF ~InSeq(s, ",") THEN <<s>>
  ELSE LET i == CHOOSE j \in 1..Len(s) : s[j] = "," /\ \A k \in 1..(j-1) : s[k] # ","
       IN <<SubSeq(s, 1, i-1)>> \o Split(SubSeq(s, i+1, Len(s)))

RECURSIVE Join(_)
\* ','.join(tokens): how a comma-separated option value is written
Join(tokens) ==
  IF Len(tokens) = 0 THEN <<>>
  ELSE IF Len(tokens) = 1 THEN tokens[1]
  ELSE tokens[1] \o <<",">> \o Join(Tail(tokens))

RECURSIVE ParseInt(_, _)
\* int(s, base) of a digit string
ParseInt(s, base) ==
  IF Len(s) = 0 THEN 0
  ELSE ParseInt(SubSeq(s, 1, Len(s)-1), base) * base + (IndexOf(Digits, s[Len(s)]) - 1)

RECURSIVE IntToStr(_)
\* str(n) of a non-negative int
IntToStr(n) ==
  IF n < 10 THEN <<Digits[n+1]>>
  ELSE IntToStr(n \div 10) \o <<Digits[(n % 10) + 1]>>

\* ord(c) of the characters a user name and a password are made of
Ord(c) ==
  IF InSeq(Digits, c) THEN 47 + IndexOf(Digits, c)
  ELSE IF InSeq(UpperChars, c) THEN 64 + IndexOf(UpperChars, c)
  ELSE IF InSeq(LowerChars, c) THEN 96 + IndexOf(LowerChars, c)
  ELSE 58

B64Alphabet == UpperChars \o LowerChars \o Digits \o <<"+","/">>

B64Char(n) == B64Alphabet[n + 1]

RECURSIVE B64Bytes(_)
B64Bytes(b) ==
  IF Len(b) = 0 THEN <<>>
  ELSE IF Len(b) = 1 THEN
    LET n == b[1] * 16
    IN <<B64Char(n \div 64), B64Char(n % 64), "=", "=">>
  ELSE IF Len(b) = 2 THEN
    LET n == (b[1] * 256 + b[2]) * 4
    IN <<B64Char(n \div 4096), B64Char((n \div 64) % 64), B64Char(n % 64), "=">>
  ELSE
    LET n == b[1] * 65536 + b[2] * 256 + b[3]
    IN <<B64Char(n \div 262144), B64Char((n \div 4096) % 64),
         B64Char((n \div 64) % 64), B64Char(n % 64)>>
       \o B64Bytes(SubSeq(b, 4, Len(b)))

\* base64.b64encode(s)
b64encode(s) == B64Bytes([i \in 1..Len(s) |-> Ord(s[i])])

\* time_rx = re.compile('^\d+[mhdw]$'), as time_rx.match(s) decides it: digits,
\* one unit letter, then the end of the string or one newline that ends it
time_rx_match(s) ==
  \E n \in 1..Len(s) :
    /\ \A i \in 1..n : InSeq(Digits, s[i])
    /\ Len(s) >= n + 1
    /\ s[n+1] \in {"m", "h", "d", "w"}
    /\ \/ Len(s) = n + 1
       \/ Len(s) = n + 2 /\ s[n+2] = "\n"

time_is_valid(value) == time_rx_match(value)

----------------------------------------------------------------------------
(* Values of the options, the remote service and the session file. *)

Str_u == <<"u">>
Str_p == <<"p">>
Str_old == <<"o","l","d">>
Str_colon == <<":">>
Str_K1 == <<"K","-","1">>
Str_K2 == <<"K","-","2">>
Str_KEY == <<"K","E","Y">>
Str_NEW9 == <<"P","R","J","-","9">>
Str_PRJ == <<"P","R","J">>
Str_Fix == <<"F","i","x">>
Str_Bob == <<"B","o","b">>
Str_E1 == <<"E","1">>
Str_Net == <<"N","e","t">>
Str_net == <<"n","e","t">>
Str_Disk == <<"D","i","s","k">>
Str_zz == <<"z","z">>
Str_Foo == <<"F","o","o">>
Str_bar == <<"b","a","r">>
Str_v1 == <<"v","1">>
Str_V2 == <<"V","2">>
Str_Major == <<"M","a","j","o","r">>
Str_Minor == <<"M","i","n","o","r">>
Str_Bug == <<"B","u","g">>
Str_Task == <<"T","a","s","k">>
Str_Fixed == <<"F","i","x","e","d">>
Str_fixed == <<"f","i","x","e","d">>
Str_note == <<"n","o","t","e">>
Str_2h == <<"2","h">>
Str_3d == <<"3","d">>
Str_auto == <<"a","u","t","o">>
Str_new == <<"n","e","w">>
Str_now == <<"n","o","w">>
Str_url == <<"u","r","l">>
Str_jira_subtask_link == <<"j","i","r","a","_","s","u","b","t","a","s","k","_","l","i","n","k">>
Str_Blocks == <<"B","l","o","c","k","s">>
Str_serverInfo == <<"s","e","r","v","e","r","I","n","f","o">>
Str_10000 == <<"1","0","0","0","0">>
Str_10001 == <<"1","0","0","0","1">>
Str_10002 == <<"1","0","0","0","2">>
Str_0 == <<"0">>
Str_600 == <<"6","0","0">>
Str_644 == <<"6","4","4">>
Str_666 == <<"6","6","6">>
Str_022 == <<"0","2","2">>
Str_077 == <<"0","7","7">>

\* every sequence over S of length 0..n
SeqsUpTo(S, n) == UNION {[1..k -> S] : k \in 0..n}

\* one item of a remote listing
Item(id, name) == [id |-> id, name |-> name]

\* what the remote service answers in the runs modelled
DefaultRemote ==
  [ project_id  |-> Str_10000,
    issuetypes  |-> <<Item(<<"1">>, Str_Bug), Item(<<"3">>, Str_Task)>>,
    versions    |-> <<Item(<<"7">>, Str_v1)>>,
    components  |-> <<Item(Str_10001, Str_Net), Item(Str_10002, Str_Disk)>>,
    resolutions |-> <<Item(<<"5">>, Str_Fixed)>>,
    priorities  |-> <<Item(<<"2">>, Str_Major), Item(<<"4">>, Str_Minor)>>,
    baseUrl     |-> Str_url,
    key         |-> Str_NEW9 ]

\* the options after parse_args and read_config, every default as optparse sets it
DefaultOptions ==
  [ noop |-> FALSE, api |-> None, delete |-> FALSE, display |-> FALSE,
    link |-> None, subtask |-> None, comment |-> None, issueID |-> None,
    worklog |-> None, resolve |-> None, subtask_of |-> None,
    timespent |-> None, remaining |-> None, timetracking |-> None,
    epic_theme |-> None, user |-> Str_u,
    summary |-> None, environment |-> None, description |-> None,
    duedate |-> None, project |-> None, issuetype |-> None, assignee |-> None,
    priority |-> None, labels |-> None, versions |-> None,
    fixVersions |-> None, components |-> None ]

NoFile == [exists |-> FALSE, content |-> <<>>, mode |-> 0]

File(content, mode) == [exists |-> TRUE, content |-> content, mode |-> mode]

Mode600 == ParseInt(Str_600, 8)

\* what the session file holds when a run starts
SessionFiles ==
  {NoFile}
  \cup {File(c, ParseInt(m, 8)) :
          c \in {b64encode(Str_u \o Str_colon \o Str_p),
                 b64encode(Str_u \o Str_colon \o Str_old)},
          m \in {Str_600, Str_644}}

\* one run's surroundings: options, remote data, session file, password, umask
Scenario(o, r, f, pw, um) ==
  [options |-> o, remote |-> r, sessionfile |-> f, password |-> pw, umask |-> um]

CachedFile == File(b64encode(Str_u \o Str_colon \o Str_p), Mode600)

Plain(o) == Scenario(o, DefaultRemote, CachedFile, Str_p, ParseInt(Str_022, 8))

Opt(v, on) == IF on THEN v ELSE None

\* every combination of the mode options
ModeScenarios ==
  { Plain([DefaultOptions EXCEPT
             !.noop = b[1], !.delete = b[2], !.display = b[3],
             !.api = Opt(Str_serverInfo, b[4]),
             !.link = Opt(Join(<<Str_K1, Str_Blocks, Str_K2>>), b[5]),
             !.subtask = Opt(Join(<<Str_K1, Str_K2>>), b[6]),
             !.comment = Opt(Str_note, b[7]),
             !.issueID = Opt(Str_K1, b[8]),
             !.worklog = Opt(Str_note, b[9]),
             !.subtask_of = Opt(Str_K2, b[10]),
             !.resolve = res,
             !.project = Str_PRJ, !.summary = Str_Fix]) :
      b \in [1..10 -> BOOLEAN], res \in {None, Str_fixed, Str_Fixed} }

\* every state of the session file, with and without a password option
AuthScenarios ==
  { Scenario(o, DefaultRemote, f, pw, ParseInt(um, 8)) :
      o \in { [DefaultOptions EXCEPT !.project = Str_PRJ, !.summary = Str_Fix],
              DefaultOptions,
              [DefaultOptions EXCEPT !.display = TRUE, !.issueID = Str_K1] },
      f \in SessionFiles, pw \in {None, Str_p}, um \in {Str_022, Str_077} }

DurChars == {"3", "d", "\n"}

Durations == {None} \cup SeqsUpTo(DurChars, MaxDurLen)

\* a spent or remaining value of each kind: absent, accepted, rejected
SomeDurations == {None, Str_3d, <<"d">>}

\* a work log on an existing and on a new issue, each of spent and remaining taking
\* every value
WorklogScenarios ==
  { Plain([DefaultOptions EXCEPT
             !.worklog = Str_note, !.issueID = id, !.timespent = d[1],
             !.remaining = d[2], !.project = Str_PRJ, !.summary = Str_Fix]) :
      id \in {None, Str_K1},
      d \in (Durations \X SomeDurations) \cup (SomeDurations \X Durations) }

TokenLists(names) == SeqsUpTo(names, MaxTokens) \ {<<>>}

OptValues(names) == {None} \cup {Join(t) : t \in TokenLists(names)}

\* a new issue with every value of some of its field options
FieldScenarios ==
  { Plain([DefaultOptions EXCEPT
             !.project = Str_PRJ, !.summary = who[1], !.assignee = who[2],
             !.priority = pr, !.components = l[1], !.labels = l[2],
             !.fixVersions = fv, !.epic_theme = ex[1], !.timetracking = ex[2]]) :
      who \in {<<None, None>>, <<Str_Fix, Str_Bob>>},
      pr \in {None, Str_Major, Str_zz},
      l \in (OptValues({Str_Net, Str_Disk}) \X {None, Str_Foo})
            \cup ({None, Str_Net} \X OptValues({Str_Foo, Str_bar})),
      fv \in {None, Str_v1},
      ex \in {<<None, None>>, <<Str_E1, Str_2h>>} }

RemoteItems == {Item(id, nm) : id \in {Str_10001, Str_10002, Str_0},
                               nm \in {Str_Net, Str_net}}

\* a new issue against every small listing of components and of priorities
LookupScenarios ==
  { Scenario([DefaultOptions EXCEPT !.project = Str_PRJ, !.summary = Str_Fix,
                                    !.components = co, !.priority = x[1],
                                    !.timetracking = x[2]],
             [DefaultRemote EXCEPT !.components = items, !.priorities = items],
             CachedFile, Str_p, ParseInt(Str_022, 8)) :
      items \in SeqsUpTo(RemoteItems, MaxItems),
      co \in {None, Str_Net},
      x \in {<<None, None>>, <<Str_net, None>>, <<None, Str_2h>>} }

\* three values of an option: unset, one token, two tokens
Few(a, b) == {None, a, Join(<<b, a>>)}

\* a new issue with its three lists of references, the project having two
\* versions: each option in turn takes every value, the two others a few
ListScenarios ==
  { Scenario([DefaultOptions EXCEPT !.project = Str_PRJ, !.summary = Str_Fix,
                                    !.components = x[1], !.versions = x[2],
                                    !.fixVersions = x[3]],
             [DefaultRemote EXCEPT
                !.versions = <<Item(<<"7">>, Str_v1), Item(<<"8">>, Str_V2)>>],
             CachedFile, Str_p, ParseInt(Str_022, 8)) :
      x \in (OptValues({Str_Net, Str_Disk}) \X Few(Str_v1, Str_V2) \X Few(Str_v1, Str_V2))
        \cup (Few(Str_Disk, Str_Net) \X OptValues({Str_v1, Str_V2}) \X Few(Str_v1, Str_V2))
        \cup (Few(Str_Disk, Str_Net) \X Few(Str_v1, Str_V2) \X OptValues({Str_v1, Str_V2})) }

\* a new issue with a string option and two options of references: each in turn
\* takes every value, the two others a few
TokenScenarios ==
  { Plain([DefaultOptions EXCEPT !.project = Str_PRJ, !.summary = x[1],
                                 !.priority = x[2], !.assignee = x[3]]) :
      x \in (OptValues({Str_Fix, Str_Foo}) \X Few(Str_Major, Str_Minor) \X Few(Str_Foo, Str_Bob))
        \cup (Few(Str_Foo, Str_Fix) \X OptValues({Str_Major, Str_Minor}) \X Few(Str_Foo, Str_Bob))
        \cup (Few(Str_Foo, Str_Fix) \X Few(Str_Major, Str_Minor) \X OptValues({Str_Bob, Str_Foo})) }

Scenarios ==
  ModeScenarios \cup AuthScenarios \cup WorklogScenarios
  \cup FieldScenarios \cup LookupScenarios \cup ListScenarios \cup TokenScenarios

----------------------------------------------------------------------------
(* The state of one run. *)

VARIABLES
  options,      \* self.options, fixed once parsed
  remote,       \* what the remote service holds
  umask,        \* the process's file creation mask
  password,     \* self.options.password, set by read_password when absent
  sessionfile,  \* the file at self.options.sessionfile
  token,        \* self.token
  token_from,   \* where check_auth took the token from: "file" or "derived"
  maps,         \* self.maps
  issue,        \* the Issue being built by create_issue_obj
  todo,         \* the update_issue_obj calls create_issue_obj has still to make
  issueID,      \* the key create_issue returned
  calls,        \* every request call_api has sent, with the reply it got
  log,          \* what the run logged or printed, in order
  pc,           \* where the run is
  auth_ret,     \* where check_auth returns to
  status        \* "running", "done", "fatal" (sys.exit(1)) or "crashed" (uncaught exception)

vars == <<options, remote, umask, password, sessionfile, token, token_from, maps,
          issue, todo, issueID, calls, log, pc, auth_ret, status>>

\* an empty dict
EmptyDict == [k \in {} |-> None]

\* d[k] = v
Put(d, k, v) == [x \in (DOMAIN d) \cup {k} |-> IF x = k THEN v ELSE d[x]]

\* Jiraclient.__init__: the seven empty lookup tables
InitMaps ==
  [ project |-> EmptyDict, priority |-> EmptyDict, issuetype |-> EmptyDict,
    versions |-> EmptyDict, fixversions |-> EmptyDict, components |-> EmptyDict,
    resolutions |-> EmptyDict ]

\* no Issue object: before Issue() is called, and after update_issue_obj returned None
NoIssue == [isNone |-> TRUE]

Init ==
  \E sc \in Scenarios :
    /\ options = sc.options
    /\ remote = sc.remote
    /\ umask = sc.umask
    /\ password = sc.password
    /\ sessionfile = sc.sessionfile
    /\ token = None
    /\ token_from = "none"
    /\ maps = InitMaps
    /\ issue = NoIssue
    /\ todo = <<>>
    /\ issueID = None
    /\ calls = <<>>
    /\ log = <<>>
    /\ pc = "check_auth"
    /\ auth_ret = "run_api"
    /\ status = "running"

env == <<options, remote, umask>>

At(p) == status = "running" /\ pc = p

----------------------------------------------------------------------------
(* call_api. *)

\* one request: the method, the uri (a pattern and what fills it), the query, the
\* payload, and the Authorization header call_api adds when self.token is set
Request(method, uri, arg, query, body) ==
  [method |-> method, uri |-> uri, arg |-> arg, query |-> query, body |-> body,
   token |-> token, reply |-> "ok"]

Replied(req, reply) == [req EXCEPT !.reply = reply]

Failures == {"unauthorized", "error"}

\* the file is left where it is
Unlinked_kept(f) == f

\* os.path.exists(sessionfile) and os.unlink(sessionfile)
Unlinked(f) == NoFile

\* call_api's two except clauses: Unauthorized removes the session file; both end
\* in self.fatal, which logs and raises SystemExit
call_api_fails(reqs, k, reply) ==
  /\ calls' = calls \o SubSeq(reqs, 1, k-1) \o <<Replied(reqs[k], reply)>>
  /\ sessionfile' = IF reply = "unauthorized" THEN Unlinked(sessionfile) ELSE sessionfile
  /\ log' = Append(log, IF reply = "unauthorized" THEN "Login failed"
                        ELSE "Unhandled API exception")
  /\ status' = "fatal"

\* the requests of reqs are sent in order until one fails
SomeCallFails(reqs) ==
  /\ \E k \in 1..Len(reqs), reply \in Failures : call_api_fails(reqs, k, reply)
  /\ UNCHANGED <<env, password, token, token_from, maps, issue, todo, issueID, pc, auth_ret>>

----------------------------------------------------------------------------
(* check_auth, step by step. *)

\* the wrong mode is logged and the file is kept
check_auth_mode_keeps ==
  /\ At("check_auth")
  /\ log' = IF sessionfile.exists /\ sessionfile.mode # ParseInt(Str_600, 8)
            THEN Append(log, "session file is not mode 600") ELSE log
  /\ pc' = "auth_token"
  /\ UNCHANGED <<env, password, sessionfile, token, token_from, maps, issue, todo,
                 issueID, calls, auth_ret, status>>

\* S_IMODE(os.stat(session).st_mode) != int("600",8): unlink
check_auth_mode ==
  /\ At("check_auth")
  /\ IF sessionfile.exists /\ sessionfile.mode # ParseInt(Str_600, 8)
     THEN /\ sessionfile' = Unlinked(sessionfile)
          /\ log' = Append(log, "session file is not mode 600")
     ELSE UNCHANGED <<sessionfile, log>>
  /\ pc' = "auth_token"
  /\ UNCHANGED <<env, password, token, token_from, maps, issue, todo, issueID,
                 calls, auth_ret, status>>

Passwords == {Str_p}

\* no session file: the token is made of user and password, read_password asking
\* for the password when the options hold none
check_auth_make_token ==
  /\ At("auth_token")
  /\ ~sessionfile.exists
  /\ \E pw \in (IF password = None \/ password = <<>> THEN Passwords ELSE {password}) :
       /\ password' = pw
       /\ token' = b64encode(options.user \o Str_colon \o pw)
  /\ token_from' = "derived"
  /\ log' = IF password = None \/ password = <<>>
            THEN Append(log, "Please authenticate.") ELSE log
  /\ pc' = "get_session"
  /\ UNCHANGED <<env, sessionfile, maps, issue, todo, issueID, calls, auth_ret, status>>

\* a session file: the token is what it holds
check_auth_read_token ==
  /\ At("auth_token")
  /\ sessionfile.exists
  /\ token' = sessionfile.content
  /\ token_from' = "file"
  /\ pc' = "get_session"
  /\ UNCHANGED <<env, password, sessionfile, maps, issue, todo, issueID, calls,
                 log, auth_ret, status>>

SessionRequest == Request("GET", "rest/auth/latest/session", None, <<>>, None)

\* get_session: the call succeeds
get_session_ok ==
  /\ At("get_session")
  /\ calls' = Append(calls, SessionRequest)
  /\ pc' = "auth_open"
  /\ UNCHANGED <<env, password, sessionfile, token, token_from, maps, issue, todo,
                 issueID, log, auth_ret, status>>

\* the failure of the session call is swallowed and check_auth goes on
get_session_fails_goes_on ==
  /\ At("get_session")
  /\ \E reply \in Failures :
       calls' = Append(calls, Replied(SessionRequest, reply))
  /\ pc' = "auth_open"
  /\ UNCHANGED <<env, password, sessionfile, token, token_from, maps, issue, todo,
                 issueID, log, auth_ret, status>>

\* get_session: call_api ends in self.fatal; the bare except of get_session catches
\* the SystemExit, removes the session file and calls self.fatal again
get_session_fails ==
  /\ At("get_session")
  /\ \E reply \in Failures :
       /\ calls' = Append(calls, Replied(SessionRequest, reply))
       /\ log' = log \o <<IF reply = "unauthorized" THEN "Login failed"
                          ELSE "Unhandled API exception", "Login failed">>
  /\ sessionfile' = Unlinked(sessionfile)
  /\ status' = "fatal"
  /\ UNCHANGED <<env, password, token, token_from, maps, issue, todo, issueID,
                 pc, auth_ret>>

RECURSIVE BitAnd(_, _)
BitAnd(a, b) ==
  IF a = 0 \/ b = 0 THEN 0
  ELSE (a % 2) * (b % 2) + 2 * BitAnd(a \div 2, b \div 2)

\* the mode open(name,'w') gives a file it creates
CreatedMode == ParseInt(Str_666, 8) - BitAnd(ParseInt(Str_666, 8), umask)

\* fd = open(session,'w'): the file is created, or truncated with its mode kept
check_auth_open ==
  /\ At("auth_open")
  /\ sessionfile' = IF sessionfile.exists THEN File(<<>>, sessionfile.mode)
                    ELSE File(<<>>, CreatedMode)
  /\ pc' = "auth_write"
  /\ UNCHANGED <<env, password, token, token_from, maps, issue, todo, issueID,
                 calls, log, auth_ret, status>>

\* the file is closed with nothing written
check_auth_write_nothing ==
  /\ At("auth_write")
  /\ pc' = "auth_chmod"
  /\ UNCHANGED <<env, password, sessionfile, token, token_from, maps, issue, todo,
                 issueID, calls, log, auth_ret, status>>

\* fd.write(token); fd.close()
check_auth_write ==
  /\ At("auth_write")
  /\ sessionfile' = File(token, sessionfile.mode)
  /\ pc' = "auth_chmod"
  /\ UNCHANGED <<env, password, token, token_from, maps, issue, todo, issueID,
                 calls, log, auth_ret, status>>

\* os.chmod(session,int("600",8)), and check_auth returns
check_auth_chmod ==
  /\ At("auth_chmod")
  /\ sessionfile' = File(sessionfile.content, ParseInt(Str_600, 8))
  /\ pc' = auth_ret
  /\ UNCHANGED <<env, password, token, token_from, maps, issue, todo, issueID,
                 calls, log, auth_ret, status>>

check_auth ==
  \/ check_auth_mode
  \/ check_auth_make_token
  \/ check_auth_read_token
  \/ get_session_ok
  \/ get_session_fails
  \/ check_auth_open
  \/ check_auth_write
  \/ check_auth_chmod

----------------------------------------------------------------------------
(* The shapes a step of run takes. *)

Moves(next, returns) ==
  IF returns THEN status' = "done" /\ pc' = pc
  ELSE pc' = next /\ status' = status

\* the condition of an if statement is false
Skip(p, cond, next) ==
  /\ At(p) /\ cond
  /\ pc' = next
  /\ UNCHANGED <<env, password, sessionfile, token, token_from, maps, issue, todo,
                 issueID, calls, log, auth_ret, status>>

\* the step only prints or logs
Says(p, cond, msg, next, returns) ==
  /\ At(p) /\ cond
  /\ log' = Append(log, msg)
  /\ Moves(next, returns)
  /\ UNCHANGED <<env, password, sessionfile, token, token_from, maps, issue, todo,
                 issueID, calls, auth_ret>>

\* every request of reqs is sent and answered
Sends(p, cond, reqs, msg, next, returns) ==
  /\ At(p) /\ cond
  /\ calls' = calls \o reqs
  /\ log' = Append(log, msg)
  /\ Moves(next, returns)
  /\ UNCHANGED <<env, password, sessionfile, token, token_from, maps, issue, todo,
                 issueID, auth_ret>>

\* one request of reqs fails: self.fatal
Fails(p, cond, reqs) ==
  /\ At(p) /\ cond
  /\ SomeCallFails(reqs)

\* an exception nothing catches: main() catches KeyboardInterrupt only
Crashes(p, cond, exception) ==
  /\ At(p) /\ cond
  /\ status' = "crashed"
  /\ log' = Append(log, exception)
  /\ UNCHANGED <<env, password, sessionfile, token, token_from, maps, issue, todo,
                 issueID, calls, pc, auth_ret>>

\* self.fatal(msg)
Fatal(p, cond, msg) ==
  /\ At(p) /\ cond
  /\ status' = "fatal"
  /\ log' = Append(log, msg)
  /\ UNCHANGED <<env, password, sessionfile, token, token_from, maps, issue, todo,
                 issueID, calls, pc, auth_ret>>

----------------------------------------------------------------------------
(* The operations on an existing issue. *)

get_serverinfo == Request("GET", "rest/api/latest/serverInfo", None, <<>>, None)

\* the last key of the dictionary, whatever its value
find_key_any(d, val) == DOMAIN d

\* SearchableDict.find_key collects every key whose value is val and pops the last
\* of the list: the keys it may return (none: IndexError)
find_key(d, val) == {k \in DOMAIN d : d[k] = val}

\* SearchableDict.find_value
find_value(d, key) == d[key]

\* link_issues(issueFrom, linkType, issueTo)
link_issues(p, cond, issueFrom, linkType, issueTo, noopmsg, next, returns) ==
  \/ Says(p, cond /\ options.noop, noopmsg, next, returns)
  \/ Sends(p, cond /\ ~options.noop,
           <<Request("POST", "rest/api/latest/issueLink", None, <<>>,
                     << <<"type", linkType>>, <<"inwardIssue", issueFrom>>,
                        <<"outwardIssue", issueTo>>, <<"comment", options.comment>> >>)>>,
           "linked", next, returns)
  \/ Fails(p, cond /\ ~options.noop,
           <<Request("POST", "rest/api/latest/issueLink", None, <<>>,
                     << <<"type", linkType>>, <<"inwardIssue", issueFrom>>,
                        <<"outwardIssue", issueTo>>, <<"comment", options.comment>> >>)>>)

\* subtask_link(parent, child)
subtask_link(p, cond, parent, child, next, returns) ==
  link_issues(p, cond, child, Str_jira_subtask_link, parent,
              "Would apply subtask link", next, returns)

\* the estimate is adjusted automatically whenever a time was spent
WorklogRequest_auto(id, comment, spent, remaining) ==
  IF spent = None /\ remaining = None THEN
    Request("POST", "rest/api/2/issue/%s/worklog", id, <<>>,
            << <<"startDate", Str_now>>, <<"comment", comment>> >>)
  ELSE IF spent = None THEN
    Request("POST", "rest/api/2/issue/%s/worklog", id,
            << <<"adjustEstimate", Str_new>>, <<"newEstimate", remaining>> >>,
            << <<"startDate", Str_now>>, <<"comment", comment>> >>)
  ELSE
    Request("POST", "rest/api/2/issue/%s/worklog", id,
            << <<"adjustEstimate", Str_auto>> >>,
            << <<"startDate", Str_now>>, <<"timeSpent", spent>>, <<"comment", comment>> >>)

\* the request log_work sends for spent and remaining values that passed time_rx
WorklogRequest(id, comment, spent, remaining) ==
  IF spent = None /\ remaining = None THEN
    Request("POST", "rest/api/2/issue/%s/worklog", id, <<>>,
            << <<"startDate", Str_now>>, <<"comment", comment>> >>)
  ELSE IF spent = None THEN
    Request("POST", "rest/api/2/issue/%s/worklog", id,
            << <<"adjustEstimate", Str_new>>, <<"newEstimate", remaining>> >>,
            << <<"startDate", Str_now>>, <<"comment", comment>> >>)
  ELSE IF remaining = None THEN
    Request("POST", "rest/api/2/issue/%s/worklog", id,
            << <<"adjustEstimate", Str_auto>> >>,
            << <<"startDate", Str_now>>, <<"timeSpent", spent>>, <<"comment", comment>> >>)
  ELSE
    Request("POST", "rest/api/2/issue/%s/worklog", id,
            << <<"adjustEstimate", Str_new>>, <<"newEstimate", remaining>> >>,
            << <<"startDate", Str_now>>, <<"timeSpent", spent>>, <<"comment", comment>> >>)

SpentRejected == options.timespent # None /\ ~time_rx_match(options.timespent)

RemainingRejected == options.remaining # None /\ ~time_rx_match(options.remaining)

\* log_work(issueID)
log_work(p, cond, id, next) ==
  \/ Says(p, cond /\ SpentRejected, "Time spent has dubious format", next, FALSE)
  \/ Says(p, cond /\ ~SpentRejected /\ RemainingRejected,
          "Time remaining has dubious format", next, FALSE)
  \/ Sends(p, cond /\ ~SpentRejected /\ ~RemainingRejected,
           <<WorklogRequest(id, options.worklog, options.timespent, options.remaining)>>,
           "Update work log", next, FALSE)
  \/ Fails(p, cond /\ ~SpentRejected /\ ~RemainingRejected,
           <<WorklogRequest(id, options.worklog, options.timespent, options.remaining)>>)

TransitionRequest(id, resolution_id) ==
  Request("POST", "rest/api/latest/issue/%s/transitions", id, <<>>,
          << <<"id", resolution_id>> >>)

\* resolve_issue(issueID, resolution)
resolve_issue(p, cond, id, resolution, next, returns) ==
  \/ Crashes(p, cond /\ find_key(maps.resolutions, resolution) = {}, "IndexError")
  \/ \E resolution_id \in find_key(maps.resolutions, resolution) :
       \/ Sends(p, cond, <<TransitionRequest(id, resolution_id), get_serverinfo>>,
                "Resolved", next, returns)
       \/ Fails(p, cond, <<TransitionRequest(id, resolution_id), get_serverinfo>>)

----------------------------------------------------------------------------
(* run, after check_auth, for an existing issue. *)

\* if self.options.api is not None
run_api ==
  \/ Sends("run_api", options.api # None,
           <<Request("GET", "%s", options.api, <<>>, None)>>, "api", "", TRUE)
  \/ Fails("run_api", options.api # None,
           <<Request("GET", "%s", options.api, <<>>, None)>>)
  \/ Skip("run_api", options.api = None, "run_delete")

DeleteRequest ==
  Request("DELETE", "rest/api/latest/issue/%s?deleteSubtasks", options.issueID, <<>>, None)

\* if self.options.delete is True: delete_issue
run_delete ==
  \/ Sends("run_delete", options.delete, <<DeleteRequest, get_serverinfo>>,
           "Deleted", "", TRUE)
  \/ Fails("run_delete", options.delete, <<DeleteRequest, get_serverinfo>>)
  \/ Skip("run_delete", ~options.delete, "run_display")

DisplayRequest == Request("GET", "rest/api/latest/issue/%s", options.issueID, <<>>, None)

\* if self.options.display: display_issue
run_display ==
  \/ Sends("run_display", options.display, <<DisplayRequest>>, "display", "", TRUE)
  \/ Fails("run_display", options.display, <<DisplayRequest>>)
  \/ Skip("run_display", ~options.display, "run_link")

\* if self.options.link is not None
run_link ==
  \/ LET parts == Split(options.link)
     IN link_issues("run_link", options.link # None /\ Len(parts) = 3,
                    parts[1], parts[2], parts[3], "Would link", "", TRUE)
  \/ Skip("run_link", options.link = None, "run_subtask")

\* if self.options.subtask is not None
run_subtask ==
  \/ LET parts == Split(options.subtask)
     IN subtask_link("run_subtask", options.subtask # None /\ Len(parts) = 2,
                     parts[1], parts[2], "", TRUE)
  \/ Skip("run_subtask", options.subtask = None, "run_comment")

Commenting == options.comment # None /\ options.issueID # None

CommentRequest ==
  Request("POST", "rest/api/latest/issue/%s/comment", options.issueID, <<>>,
          << <<"body", options.comment>> >>)

\* if self.options.comment is not None and self.options.issueID is not None
run_comment ==
  \/ Says("run_comment", Commenting /\ options.noop, "Add comment", "run_worklog", FALSE)
  \/ Sends("run_comment", Commenting /\ ~options.noop, <<CommentRequest>>,
           "comment", "run_worklog", FALSE)
  \/ Fails("run_comment", Commenting /\ ~options.noop, <<CommentRequest>>)
  \/ Skip("run_comment", ~Commenting, "run_worklog")

Logging == options.worklog # None /\ options.issueID # None

\* if self.options.worklog is not None and self.options.issueID is not None
run_worklog ==
  \/ Says("run_worklog", Logging /\ options.noop, "Update time estimate",
          "run_resolve", FALSE)
  \/ log_work("run_worklog", Logging /\ ~options.noop, options.issueID, "run_resolve")
  \/ Skip("run_worklog", ~Logging, "run_resolve")

Resolving == options.issueID # None /\ options.resolve # None

\* if self.options.issueID is not None and self.options.resolve is not None
run_resolve ==
  \/ Says("run_resolve", Resolving /\ options.noop, "Resolve", "", TRUE)
  \/ resolve_issue("run_resolve", Resolving /\ ~options.noop, options.issueID,
                   options.resolve, "", TRUE)
  \/ Skip("run_resolve", ~Resolving, "run_issueID")

\* if self.options.issueID is not None: return
run_issueID ==
  \/ /\ At("run_issueID") /\ options.issueID # None
     /\ status' = "done"
     /\ UNCHANGED <<env, password, sessionfile, token, token_from, maps, issue, todo,
                    issueID, calls, log, pc, auth_ret>>
  \/ Skip("run_issueID", options.issueID = None, "create_issue_obj")

----------------------------------------------------------------------------
(* The Issue object and update_issue_obj. *)

\* Issue.__init__; customfield_10010 is the attribute create_issue_obj adds for
\* --epic_theme, None while the object has no such attribute
Issue ==
  [ summary |-> <<>>, environment |-> <<>>, description |-> <<>>, duedate |-> <<>>,
    project |-> [id |-> None], issuetype |-> [id |-> None],
    assignee |-> [name |-> None], priority |-> [id |-> None],
    timetracking |-> EmptyDict, labels |-> <<>>,
    versions |-> <<[id |-> None]>>, fixVersions |-> <<[id |-> None]>>,
    components |-> <<[id |-> None]>>, customfield_10010 |-> None ]

\* issue.__dict__.keys() of a new Issue, in one order
IssueKeys ==
  <<"summary", "environment", "description", "duedate", "project", "issuetype",
    "assignee", "priority", "timetracking", "labels", "versions", "fixVersions",
    "components">>

\* type(attr) of each attribute
TypeOf(key) ==
  IF key \in {"summary", "environment", "description", "duedate"} THEN "str"
  ELSE IF key \in {"labels", "versions", "fixVersions", "components"} THEN "list"
  ELSE "dict"

\* key.lower()
LowerKey(key) == IF key = "fixVersions" THEN "fixversions" ELSE key

\* self.maps.has_key(key.lower())
has_map(key) == LowerKey(key) \in DOMAIN InitMaps

\* the entry {'id':None} is left in the list
PopSentinel_kept(attr) == attr

\* attr.pop(attr.index({'id':None})), nothing when the list holds no such entry
PopSentinel(attr) ==
  IF \E i \in 1..Len(attr) : attr[i] = [id |-> None]
  THEN LET i == CHOOSE j \in 1..Len(attr) :
                  attr[j] = [id |-> None] /\ \A k \in 1..(j-1) : attr[k] # [id |-> None]
       IN SubSeq(attr, 1, i-1) \o SubSeq(attr, i+1, Len(attr))
  ELSE attr

\* labels are given the lower-cased value, as the other lists are given the id
set_attr_lowered(iss, key, value, id_str, mapped) ==
  IF TypeOf(key) = "str" THEN [iss EXCEPT ![key] = value]
  ELSE IF TypeOf(key) = "list" THEN
    IF key = "labels" THEN [iss EXCEPT ![key] = Append(iss[key], Lower(value))]
    ELSE [iss EXCEPT ![key] = Append(PopSentinel(iss[key]), [id |-> id_str])]
  ELSE
    LET item == iss[key]
        item1 == IF "id" \in DOMAIN item
                 THEN [item EXCEPT !.id = IF mapped THEN id_str ELSE value]
                 ELSE item
        item2 == IF "name" \in DOMAIN item1 THEN [item1 EXCEPT !.name = value]
                 ELSE item1
    IN [iss EXCEPT ![key] = item2]

\* the assignments of update_issue_obj once attribute_id is known; id_str is
\* str(attribute_id), mapped tells whether attribute_map is set
set_attr(iss, key, value, id_str, mapped) ==
  IF TypeOf(key) = "str" THEN [iss EXCEPT ![key] = value]
  ELSE IF TypeOf(key) = "list" THEN
    IF key = "labels" THEN [iss EXCEPT ![key] = Append(iss[key], value)]
    ELSE [iss EXCEPT ![key] = Append(PopSentinel(iss[key]), [id |-> id_str])]
  ELSE
    LET item == iss[key]
        item1 == IF "id" \in DOMAIN item
                 THEN [item EXCEPT !.id = IF mapped THEN id_str ELSE value]
                 ELSE item
        item2 == IF "name" \in DOMAIN item1 THEN [item1 EXCEPT !.name = value]
                 ELSE item1
    IN [iss EXCEPT ![key] = item2]

\* update_issue_obj(issue,key,value) for a key with a lookup table, attribute_id
\* being what find_key returned: None when it is 0 ("if not attribute_id: return")
update_mapped(iss, key, value, attribute_id) ==
  IF attribute_id = 0 THEN NoIssue
  ELSE set_attr(iss, key, value, IntToStr(attribute_id), TRUE)

\* update_issue_obj(issue,key,value) for a key without lookup table
update_plain(iss, key, value) == set_attr(iss, key, value, Lower(value), FALSE)

\* an option value that is set and not empty
Truthy(v) == v # None /\ v # <<>>

RECURSIVE CallsFor_reversed(_, _)
\* the values of each option are taken from the last to the first
CallsFor_reversed(opts, keys) ==
  IF Len(keys) = 0 THEN <<>>
  ELSE LET key == keys[1]
           values == Split(opts[key])
       IN (IF Truthy(opts[key])
           THEN [i \in 1..Len(values) |-> <<key, values[Len(values) + 1 - i]>>]
           ELSE <<>>)
          \o CallsFor_reversed(opts, Tail(keys))

RECURSIVE CallsFor(_, _)
\* the (key, value) pairs the loop of create_issue_obj passes to update_issue_obj
CallsFor(opts, keys) ==
  IF Len(keys) = 0 THEN <<>>
  ELSE LET key == keys[1]
           values == Split(opts[key])
       IN (IF Truthy(opts[key])
           THEN [i \in 1..Len(values) |-> <<key, values[i]>>]
           ELSE <<>>)
          \o CallsFor(opts, Tail(keys))

\* the tests of create_issue that pop an attribute
Popped(key, v) ==
  IF key = "customfield_10010" THEN v = None
  ELSE IF TypeOf(key) = "str" THEN v = <<>>
  ELSE IF TypeOf(key) = "list"
    THEN Len(v) = 0 \/ (key # "labels" /\ v = <<[id |-> None]>>)
  ELSE DOMAIN v = {} \/ v = [id |-> None]

RECURSIVE Fields(_, _)
\* what is left of issueObj.__dict__: the attributes and values sent as "fields"
Fields(iss, keys) ==
  IF Len(keys) = 0 THEN <<>>
  ELSE (IF Popped(keys[1], iss[keys[1]]) THEN <<>>
        ELSE << <<keys[1], iss[keys[1]]>> >>)
       \o Fields(iss, Tail(keys))

Payload(iss) == Fields(iss, Append(IssueKeys, "customfield_10010"))

----------------------------------------------------------------------------
(* create_issue_obj. *)

\* read_issue_defaults has been applied to the options; Issue()
create_issue_obj ==
  \/ Fatal("create_issue_obj", options.project = None, "You must specify a project key")
  \/ /\ At("create_issue_obj") /\ options.project # None
     /\ issue' = Issue
     /\ todo' = CallsFor(options, IssueKeys)
     /\ pc' = "get_project_id"
     /\ UNCHANGED <<env, password, sessionfile, token, token_from, maps, issueID,
                    calls, log, auth_ret, status>>

RECURSIVE Populated(_, _)
\* for item in data: d[int(item['id'])] = str(item['name'].lower())
Populated(d, data) ==
  IF Len(data) = 0 THEN d
  ELSE Populated(Put(d, ParseInt(data[1].id, 10), Lower(data[1].name)), Tail(data))

\* a get_* method: one GET, and the table it fills
Fetches(p, req, newmaps, next) ==
  \/ /\ At(p)
     /\ calls' = Append(calls, req)
     /\ maps' = newmaps
     /\ pc' = next
     /\ UNCHANGED <<env, password, sessionfile, token, token_from, issue, todo,
                    issueID, log, auth_ret, status>>
  \/ Fails(p, TRUE, <<req>>)

get_project_id ==
  Fetches("get_project_id",
          Request("GET", "rest/api/latest/project/%s", options.project, <<>>, None),
          [maps EXCEPT !.project =
             Put(maps.project, ParseInt(remote.project_id, 10), Lower(options.project))],
          "get_issue_types")

\* get_issue_types begins with self.check_auth()
get_issue_types_auth ==
  /\ At("get_issue_types")
  /\ pc' = "check_auth"
  /\ auth_ret' = "get_issue_types_call"
  /\ UNCHANGED <<env, password, sessionfile, token, token_from, maps, issue, todo,
                 issueID, calls, log, status>>

get_issue_types ==
  Fetches("get_issue_types_call",
          Request("GET", "rest/api/latest/issue/createmeta?projectKeys=%s",
                  options.project, <<>>, None),
          [maps EXCEPT !.issuetype = Populated(maps.issuetype, remote.issuetypes)],
          "get_project_versions")

get_project_versions ==
  Fetches("get_project_versions",
          Request("GET", "rest/api/latest/project/%s/versions", options.project, <<>>, None),
          [maps EXCEPT !.versions = Populated(maps.versions, remote.versions),
                       !.fixversions = Populated(maps.versions, remote.versions)],
          "get_project_components")

get_project_components ==
  Fetches("get_project_components",
          Request("GET", "rest/api/latest/project/%s/components", options.project, <<>>, None),
          [maps EXCEPT !.components = Populated(maps.components, remote.components)],
          "get_resolutions")

get_resolutions ==
  Fetches("get_resolutions",
          Request("GET", "rest/api/latest/resolution", None, <<>>, None),
          [maps EXCEPT !.resolutions = Populated(maps.resolutions, remote.resolutions)],
          "get_priorities")

get_priorities ==
  Fetches("get_priorities",
          Request("GET", "rest/api/latest/priority", None, <<>>, None),
          [maps EXCEPT !.priority = Populated(maps.priority, remote.priorities)],
          "fields")

\* one turn of the loop: issue = self.update_issue_obj(issue,key,value)
update_issue_obj ==
  LET key == todo[1][1]
      value == todo[1][2]
      Turn(iss, msg) ==
        /\ issue' = iss
        /\ todo' = Tail(todo)
        /\ log' = IF msg = "" THEN log ELSE Append(log, msg)
        /\ UNCHANGED <<env, password, sessionfile, token, token_from, maps, issueID,
                       calls, pc, auth_ret, status>>
  IN \/ Crashes("fields", todo # <<>> /\ issue = NoIssue, "AttributeError")
     \/ Crashes("fields", /\ todo # <<>> /\ issue # NoIssue /\ has_map(key)
                          /\ find_key(maps[LowerKey(key)], Lower(value)) = {},
                "IndexError")
     \/ /\ At("fields") /\ todo # <<>> /\ issue # NoIssue /\ has_map(key)
        /\ \E attribute_id \in find_key(maps[LowerKey(key)], Lower(value)) :
             Turn(update_mapped(issue, key, value, attribute_id),
                  IF attribute_id = 0 THEN "no id found" ELSE "")
     \/ /\ At("fields") /\ todo # <<>> /\ issue # NoIssue /\ ~has_map(key)
        /\ Turn(update_plain(issue, key, value), "")

\* the statements of create_issue_obj after the loop
create_issue_obj_rest ==
  LET sets == Truthy(options.epic_theme) \/ Truthy(options.timetracking)
              \/ Truthy(options.remaining)
      with_epic == IF Truthy(options.epic_theme)
                   THEN [issue EXCEPT !.customfield_10010 = options.epic_theme]
                   ELSE issue
      with_original == IF Truthy(options.timetracking)
                       THEN [with_epic EXCEPT !.timetracking =
                                                [originalEstimate |-> options.timetracking]]
                       ELSE with_epic
      with_remaining == IF Truthy(options.remaining)
                        THEN [with_original EXCEPT !.timetracking =
                                                [remainingEstimate |-> options.remaining]]
                        ELSE with_original
  IN \/ Crashes("fields", todo = <<>> /\ issue = NoIssue /\ sets, "AttributeError")
     \/ Skip("fields", todo = <<>> /\ issue = NoIssue /\ ~sets, "create_issue")
     \/ /\ At("fields") /\ todo = <<>> /\ issue # NoIssue
        /\ issue' = with_remaining
        /\ pc' = "create_issue"
        /\ UNCHANGED <<env, password, sessionfile, token, token_from, maps, todo,
                       issueID, calls, log, auth_ret, status>>

----------------------------------------------------------------------------
(* run, for a new issue. *)

CreateRequest ==
  Request("POST", "rest/api/latest/issue", None, <<>>, << <<"fields", Payload(issue)>> >>)

\* issueID = self.create_issue(issue), inside try ... except Exception: self.fatal
create_issue ==
  \/ Fatal("create_issue", issue = NoIssue, "Failed to create issue")
  \/ /\ At("create_issue") /\ issue # NoIssue /\ options.noop
     /\ issueID' = Str_KEY
     /\ log' = Append(log, "Create issue:")
     /\ pc' = "run_subtask_of"
     /\ UNCHANGED <<env, password, sessionfile, token, token_from, maps, issue, todo,
                    calls, auth_ret, status>>
  \/ /\ At("create_issue") /\ issue # NoIssue /\ ~options.noop
     /\ calls' = calls \o <<CreateRequest, get_serverinfo>>
     /\ issueID' = remote.key
     /\ log' = log \o <<"Create issue:", "Created">>
     /\ pc' = "run_subtask_of"
     /\ UNCHANGED <<env, password, sessionfile, token, token_from, maps, issue, todo,
                    auth_ret, status>>
  \/ Fails("create_issue", issue # NoIssue /\ ~options.noop,
           <<CreateRequest, get_serverinfo>>)

\* if self.options.subtask_of: self.subtask_link(self.options.subtask_of,issueID)
run_subtask_of ==
  \/ subtask_link("run_subtask_of", Truthy(options.subtask_of), options.subtask_of,
                  issueID, "run_new_worklog", FALSE)
  \/ Skip("run_subtask_of", ~Truthy(options.subtask_of), "run_new_worklog")

\* if self.options.worklog is not None: self.log_work(issueID)
run_new_worklog ==
  \/ log_work("run_new_worklog", options.worklog # None, issueID, "run_new_resolve")
  \/ Skip("run_new_worklog", options.worklog = None, "run_new_resolve")

\* if self.options.resolve is not None: self.resolve_issue(issueID,...); run returns
run_new_resolve ==
  \/ resolve_issue("run_new_resolve", options.resolve # None, issueID,
                   options.resolve, "", TRUE)
  \/ /\ At("run_new_resolve") /\ options.resolve = None
     /\ status' = "done"
     /\ UNCHANGED <<env, password, sessionfile, token, token_from, maps, issue, todo,
                    issueID, calls, log, pc, auth_ret>>

----------------------------------------------------------------------------

Next ==
  \/ check_auth
  \/ run_api
  \/ run_delete
  \/ run_display
  \/ run_link
  \/ run_subtask
  \/ run_comment
  \/ run_worklog
  \/ run_resolve
  \/ run_issueID
  \/ create_issue_obj
  \/ get_project_id
  \/ get_issue_types_auth
  \/ get_issue_types
  \/ get_project_versions
  \/ get_project_components
  \/ get_resolutions
  \/ get_priorities
  \/ update_issue_obj
  \/ create_issue_obj_rest
  \/ create_issue
  \/ run_subtask_of
  \/ run_new_worklog
  \/ run_new_resolve

Spec == Init /\ [][Next]_vars

----------------------------------------------------------------------------
(* What the claims speak of. *)

CallIndexes(uri) == {i \in 1..Len(calls) : calls[i].uri = uri}

SessionCalls == CallIndexes("rest/auth/latest/session")

WorklogCalls == CallIndexes("rest/api/2/issue/%s/worklog")

CreateCalls == CallIndexes("rest/api/latest/issue")

Logged(msg) == \E i \in 1..Len(log) : log[i] = msg

\* the keys of a request body or query
Keys(pairs) == {pairs[j][1] : j \in 1..Len(pairs)}

\* check_auth runs for the first time in the run (run calls it), not from get_issue_types
FirstAuth == auth_ret = "run_api"

\* log_work has been called and has returned
LogWorkReturned ==
  /\ status = "running"
  /\ \/ Logging /\ ~options.noop /\ pc \in {"run_resolve", "run_issueID"}
     \/ options.issueID = None /\ options.worklog # None /\ pc = "run_new_resolve"

\* the run is at the call of log_work
AtLogWork ==
  \/ pc = "run_worklog" /\ Logging /\ ~options.noop
  \/ pc = "run_new_worklog" /\ options.worklog # None

\* the duration grammar: digits, then one of m, h, d, w, and nothing else
Grammar(s) ==
  /\ Len(s) >= 2
  /\ \A i \in 1..(Len(s)-1) : InSeq(Digits, s[i])
  /\ s[Len(s)] \in {"m", "h", "d", "w"}

\* every supplied duration matches the grammar
DurationsWellFormed ==
  /\ options.timespent # None => Grammar(options.timespent)
  /\ options.remaining # None => Grammar(options.remaining)

\* the update_issue_obj calls create_issue_obj has made so far
CallsMade ==
  LET all == CallsFor(options, IssueKeys)
  IN SubSeq(all, 1, Len(all) - Len(todo))

RECURSIVE ValuesOf(_, _)
\* the values of the calls for one key, in call order
ValuesOf(cs, key) ==
  IF Len(cs) = 0 THEN <<>>
  ELSE (IF cs[1][1] = key THEN <<cs[1][2]>> ELSE <<>>) \o ValuesOf(Tail(cs), key)

\* the Issue object exists and is being filled or has been filled
Building == issue # NoIssue

----------------------------------------------------------------------------
(* The claims. *)

\* C1: with the dry-run (noop) option set, every request the run sends is a GET:
\* no POST and no DELETE reaches the remote service, whatever the mode options.
C1_NoopSendsOnlyGet ==
  options.noop => \A i \in 1..Len(calls) : calls[i].method = "GET"

\* the loop of create_issue_obj is at a call of update_issue_obj whose key has a
\* lookup table in which the lower-cased value is no label
LookupMiss ==
  /\ At("fields") /\ todo # <<>> /\ issue # NoIssue
  /\ has_map(todo[1][1])
  /\ find_key(maps[LowerKey(todo[1][1])], Lower(todo[1][2])) = {}

\* C2: a lookup miss is not fatal: the call of update_issue_obj leaves the field
\* unset and the issue record usable, and the run goes on with the next token.
C2_LookupMissIsNotFatal ==
  [][LookupMiss => (status' = "running" /\ issue' = issue /\ todo' = Tail(todo))]_vars

\* C3: no field of the payload create_issue sends holds the value Issue() gave it:
\* the empty string, the empty object or list, an object whose id or name is null,
\* the list holding only the null-id entry.
C3_UnsetFieldsArePruned ==
  \A i \in CreateCalls :
    LET fields == calls[i].body[1][2]
    IN \A j \in 1..Len(fields) : fields[j][2] # Issue[fields[j][1]]

\* C4: once the remote service has rejected the session-validation call as
\* unauthorized, the session file does not exist, the run has ended fatally, and
\* that call is the last the run made.
C4_RejectedCredentialIsTerminal ==
  \A i \in SessionCalls :
    calls[i].reply = "unauthorized" =>
      /\ i = Len(calls)
      /\ status = "fatal"
      /\ ~sessionfile.exists

C4_Witness ==
  /\ token_from = "file"
  /\ Len(calls) > 1
  /\ Len(calls) \in SessionCalls
  /\ calls[Len(calls)].reply = "unauthorized"
  /\ status = "fatal"

\* C5: when check_auth finds the session file with a mode other than 0600, the file
\* is gone before the token is chosen, the token is base64 of user:password and not
\* what the file held, and when check_auth returns the file exists again, holds that
\* token and has mode 0600.
C5_WrongModeFileIsReplaced ==
  (Logged("session file is not mode 600") /\ FirstAuth) =>
    /\ pc = "auth_token" => ~sessionfile.exists
    /\ pc \in {"get_session", "auth_open", "auth_write", "auth_chmod", "run_api"} =>
         /\ token_from = "derived"
         /\ token = b64encode(options.user \o Str_colon \o password)
    /\ At("run_api") => sessionfile = File(token, Mode600)

C5_Witness ==
  /\ Logged("session file is not mode 600")
  /\ Logged("Please authenticate.")
  /\ FirstAuth
  /\ At("run_api")
  /\ sessionfile.exists

\* C6: when check_auth reads the token from the session file, the token is the
\* content of that file, whose mode is 0600, and nobody is asked for a password;
\* when check_auth returns, the file holds that token with mode 0600; and every
\* session-validation call of the run, the one get_issue_types causes included,
\* carries the same token.
C6_CachedCredentialIsKept ==
  /\ (At("get_session") /\ token_from = "file") => sessionfile = File(token, Mode600)
  /\ (token_from = "file" /\ FirstAuth) => ~Logged("Please authenticate.")
  /\ (token_from = "file" /\ (At("run_api") \/ At("get_issue_types_call"))) =>
       sessionfile = File(token, Mode600)
  /\ \A i \in SessionCalls, j \in SessionCalls : calls[i].token = calls[j].token

C6_Witness ==
  /\ At("get_issue_types_call")
  /\ password = None
  /\ Cardinality(SessionCalls) = 2
  /\ sessionfile = CachedFile
  /\ token = CachedFile.content

\* C7: log_work sends one POST, and its shape follows from which of spent and
\* remaining are given: neither, no query and no timeSpent; remaining only, the
\* query adjustEstimate=new&newEstimate=<remaining> and no timeSpent; spent only,
\* the query adjustEstimate=auto and timeSpent in the body; both, the query
\* adjustEstimate=new&newEstimate=<remaining> and timeSpent in the body. The body
\* never has a remainingEstimate key.
C7_WorklogRequestShape ==
  /\ Cardinality(WorklogCalls) <= 1
  /\ (LogWorkReturned /\ ~SpentRejected /\ ~RemainingRejected) =>
       Cardinality(WorklogCalls) = 1
  /\ \A i \in WorklogCalls :
       LET c == calls[i]
           spent == options.timespent
           remaining == options.remaining
       IN /\ c.method = "POST"
          /\ "remainingEstimate" \notin Keys(c.body)
          /\ c.query = IF remaining # None
                       THEN << <<"adjustEstimate", Str_new>>, <<"newEstimate", remaining>> >>
                       ELSE IF spent # None THEN << <<"adjustEstimate", Str_auto>> >>
                       ELSE <<>>
          /\ ("timeSpent" \in Keys(c.body)) <=> (spent # None)
          /\ spent # None => <<"timeSpent", spent>> \in {c.body[j] : j \in 1..Len(c.body)}

C7_Witness ==
  /\ LogWorkReturned
  /\ options.timespent = Str_3d
  /\ options.remaining = Str_3d
  /\ \E i \in WorklogCalls :
       /\ calls[i].query = << <<"adjustEstimate", Str_new>>, <<"newEstimate", Str_3d>> >>
       /\ "timeSpent" \in Keys(calls[i].body)

\* C8: log_work sends nothing and does not end the run when a supplied spent or
\* remaining value fails the grammar of digits followed by one of m, h, d, w and
\* nothing else, and it sends its request when every supplied value matches it.
C8_DurationGrammar ==
  /\ WorklogCalls # {} => DurationsWellFormed
  /\ (LogWorkReturned /\ DurationsWellFormed) => WorklogCalls # {}
  /\ (AtLogWork /\ ~DurationsWellFormed) => status = "running"

\* C9: in every lookup table, find_key of the label find_value gives for an
\* identifier is that identifier.
C9_LookupRoundTrip ==
  \A name \in DOMAIN maps :
    \A id \in DOMAIN maps[name] :
      \A k \in find_key(maps[name], find_value(maps[name], id)) : k = id

\* the label of id is the label of no other identifier of the table
UniqueLabel(d, id) == \A other \in DOMAIN d : d[other] = d[id] => other = id

\* C9, amended: in every lookup table, for every identifier whose label no other
\* identifier of the table bears, find_key of the label find_value gives for it
\* finds a key, and that key is the identifier.
C9_LookupRoundTripUnique ==
  \A name \in DOMAIN maps :
    \A id \in DOMAIN maps[name] :
      UniqueLabel(maps[name], id) =>
        find_key(maps[name], find_value(maps[name], id)) = {id}

C9_Witness ==
  /\ Cardinality(DOMAIN maps.components) = 2
  /\ \A id \in DOMAIN maps.components : UniqueLabel(maps.components, id)
  /\ Cardinality(DOMAIN maps.priority) = 2

\* C10: every entry of labels is lower-case: update_issue_obj appends to labels the
\* lower-cased form of each value, in call order.
C10_LabelsLowerCased ==
  Building => issue.labels = [i \in 1..Len(ValuesOf(CallsMade, "labels")) |->
                                Lower(ValuesOf(CallsMade, "labels")[i])]

\* C10, amended: update_issue_obj appends to labels the value as given, its case
\* kept, looking it up in no table: labels holds the values of the calls made for
\* it, in call order.
C10_LabelsAsGiven ==
  /\ ~has_map("labels")
  /\ Building => issue.labels = ValuesOf(CallsMade, "labels")

C10_Witness ==
  /\ Building
  /\ issue.labels = <<Str_Foo, Str_bar>>

\* the identifiers update_issue_obj may take for a value of key: what find_key gives
\* for the lower-cased value and line 689 does not take for "no id found"
ResolvedIds(key, value) ==
  {k \in find_key(maps[LowerKey(key)], Lower(value)) : k # 0}

\* the fields of the create request sent, if one was
Submitted == {calls[i].body[1][2] : i \in CreateCalls}

\* C11: for versions, fixVersions and components, while the issue record exists
\* (every update_issue_obj call made so far resolved its value and returned the
\* record): after n >= 1 calls for the field it is a list of exactly n entries, the
\* i-th being {id: str of an identifier the i-th value resolves to}, and none is the
\* {id: None} sentinel; with no call the field is the sentinel list; and the create
\* request carries the field as that list when n >= 1.
C11_ReferenceLists ==
  Building =>
    \A key \in {"versions", "fixVersions", "components"} :
      LET values == ValuesOf(CallsMade, key)
          n == Len(values)
      IN /\ n = 0 => issue[key] = <<[id |-> None]>>
         /\ n >= 1 =>
              /\ Len(issue[key]) = n
              /\ \A i \in 1..n :
                   /\ issue[key][i] # [id |-> None]
                   /\ \E k \in ResolvedIds(key, values[i]) :
                        issue[key][i] = [id |-> IntToStr(k)]
              /\ \A fields \in Submitted :
                   \E j \in 1..Len(fields) : fields[j] = <<key, issue[key]>>

C11_Witness ==
  /\ Building
  /\ issue.components = <<[id |-> Str_10001], [id |-> Str_10002]>>
  /\ issue.versions = <<[id |-> <<"8">>], [id |-> <<"7">>]>>
  /\ issue.fixVersions = <<[id |-> <<"7">>]>>
  /\ \E fields \in Submitted :
       \E j \in 1..Len(fields) : fields[j] = <<"components", issue.components>>

\* the option value of key read as the code reads it: nothing when it is unset or
\* empty, else the pieces between its commas
Tokens(key) ==
  IF ~Truthy(options[key]) THEN <<>>
  ELSE LET commas == {0, Len(options[key]) + 1}
                     \cup {i \in 1..Len(options[key]) : options[key][i] = ","}
           starts == {i \in commas : i <= Len(options[key])}
           Next_comma(i) == CHOOSE j \in commas : j > i /\ \A k \in commas : k > i => j <= k
           Piece(i) == SubSeq(options[key], i + 1, Next_comma(i) - 1)
           Nth(n) == CHOOSE i \in starts : Cardinality({k \in starts : k < i}) = n - 1
       IN [n \in 1..Cardinality(starts) |-> Piece(Nth(n))]

\* the tokens of key update_issue_obj has been applied to
Applied(key) ==
  SubSeq(Tokens(key), 1, Len(Tokens(key)) - Len(ValuesOf(todo, key)))

\* C12: create_issue_obj splits each supplied option value on its commas and applies
\* update_issue_obj once per token, from left to right. While the issue record
\* exists: the calls still to make for a field are its tokens not yet applied, in
\* order; labels holds the tokens applied, in order; versions, fixVersions and
\* components hold one entry per token applied, the i-th from the i-th token; a
\* string field is the last token applied; project, issuetype and priority hold
\* the id the last token applied resolves to, assignee the last token as name; and
\* a field no token was applied to is as Issue() made it.
C12_TokensInOrder ==
  Building =>
    \A key \in {"summary", "environment", "description", "duedate", "project",
                 "issuetype", "assignee", "priority", "labels", "versions",
                 "fixVersions", "components"} :
      LET tokens == Tokens(key)
          applied == Applied(key)
          n == Len(applied)
      IN /\ ValuesOf(todo, key) = SubSeq(tokens, n + 1, Len(tokens))
         /\ n = 0 => issue[key] = Issue[key]
         /\ (n >= 1 /\ key = "labels") => issue[key] = applied
         /\ (n >= 1 /\ key \in {"versions", "fixVersions", "components"}) =>
              /\ Len(issue[key]) = n
              /\ \A i \in 1..n : \E k \in ResolvedIds(key, applied[i]) :
                   issue[key][i] = [id |-> IntToStr(k)]
         /\ (n >= 1 /\ TypeOf(key) = "str") => issue[key] = applied[n]
         /\ (n >= 1 /\ key \in {"project", "issuetype", "priority"}) =>
              \E k \in ResolvedIds(key, applied[n]) : issue[key] = [id |-> IntToStr(k)]
         /\ (n >= 1 /\ key = "assignee") => issue[key] = [name |-> applied[n]]

C12_Witness ==
  /\ Building
  /\ Tokens("summary") = <<Str_Fix, Str_Foo>>
  /\ Tokens("priority") = <<Str_Minor, Str_Major>>
  /\ Tokens("assignee") = <<Str_Bob, Str_Foo>>
  /\ issue.summary = Str_Foo
  /\ issue.priority = [id |-> <<"2">>]
  /\ issue.assignee = [name |-> Str_Foo]
  /\ \E fields \in Submitted :
       \E j \in 1..Len(fields) : fields[j] = <<"summary", Str_Foo>>

\* the uris of the six get_* methods create_issue_obj calls, in the order of the calls
FetchUris ==
  << "rest/api/latest/project/%s",
     "rest/api/latest/issue/createmeta?projectKeys=%s",
     "rest/api/latest/project/%s/versions",
     "rest/api/latest/project/%s/components",
     "rest/api/latest/resolution",
     "rest/api/latest/priority" >>

\* the calls of the k-th get_* method that were answered
Fetched(k) == {i \in CallIndexes(FetchUris[k]) : calls[i].reply = "ok"}

\* each of the six fetches has been made once and answered, one after the other
FetchesDone ==
  /\ \A k \in 1..6 : Cardinality(Fetched(k)) = 1
  /\ \A k \in 1..5 : \A i \in Fetched(k), j \in Fetched(k + 1) : i < j

\* update_issue_obj has been called, or create_issue_obj is past its loop
FieldsBegun ==
  \/ pc = "fields" /\ Len(todo) < Len(CallsFor(options, IssueKeys))
  \/ pc = "fields" /\ status = "crashed"
  \/ pc \in {"create_issue", "run_subtask_of", "run_new_worklog", "run_new_resolve"}
  \/ issue \notin {NoIssue, Issue}

\* C13: the first call of a run is the session-validation call; every later call
\* comes after a session-validation call that succeeded, and after no call that
\* failed; and when create_issue_obj sets the first field of the record, and when
\* the issue is submitted, the six fetches (project, issue types, versions,
\* components, resolutions, priorities) have each been made and answered, in that
\* order, every one before the create request.
C13_CallOrder ==
  /\ calls # <<>> => calls[1].uri = "rest/auth/latest/session"
  /\ \A i \in 2..Len(calls) :
       /\ \E j \in SessionCalls : j < i /\ calls[j].reply = "ok"
       /\ \A j \in 1..(i-1) : calls[j].reply = "ok"
  /\ FieldsBegun => FetchesDone
  /\ \A i \in CreateCalls :
       /\ FetchesDone
       /\ \A k \in 1..6 : \A j \in Fetched(k) : j < i

C13_Witness ==
  /\ status = "done"
  /\ CreateCalls # {}
  /\ Cardinality(SessionCalls) = 2
  /\ CallIndexes("rest/api/latest/issue/%s/transitions") # {}
  /\ \A i \in CreateCalls : Fetched(6) = {i - 1}

\* the step is a session-validation call that fails other than by Unauthorized
SessionCallBreaks ==
  /\ Len(calls') = Len(calls) + 1
  /\ calls'[Len(calls')].uri = "rest/auth/latest/session"
  /\ calls'[Len(calls')].reply = "error"

\* the step removes the session file
SessionFileRemoved == sessionfile.exists /\ ~sessionfile'.exists

\* C14: a step removes the session file only when the file's mode is not 0600 or
\* when the call the step makes is answered unauthorized; and a session-validation
\* call that fails for another reason ends the run fatally and leaves the session
\* file as it was, existing with its mode and content when it existed.
C14_CacheDeletedOnlyWhenRejected ==
  [][ /\ SessionFileRemoved =>
           \/ sessionfile.mode # Mode600
           \/ /\ Len(calls') = Len(calls) + 1
              /\ calls'[Len(calls')].reply = "unauthorized"
      /\ SessionCallBreaks => (status' = "fatal" /\ sessionfile' = sessionfile) ]_vars

\* check_auth has taken its first step, the test of the mode of the session file
InsideCheckAuth == pc # "check_auth" \/ ~FirstAuth

\* the session file exists and holds a credential
CredentialOnDisk == sessionfile.exists /\ sessionfile.content # <<>>

\* C15: from the first step of check_auth on, open, write and chmod being steps of
\* their own, whenever the session file exists and holds a credential its mode is
\* 0600, the file created anew after being absent or removed included.
C15_CredentialOnlyUnder0600 ==
  (InsideCheckAuth /\ CredentialOnDisk) => sessionfile.mode = Mode600

\* the run is at a call of resolve_issue, which looks the resolution up
ConsultsResolutions ==
  \/ At("run_resolve") /\ Resolving /\ ~options.noop
  \/ At("run_new_resolve") /\ options.resolve # None

\* the run is at a call of update_issue_obj that looks its value up
ConsultsFieldTable ==
  At("fields") /\ todo # <<>> /\ issue # NoIssue /\ has_map(todo[1][1])

\* the remote service has a resolution of that label, case apart
ExistsRemotely(label) ==
  \E i \in 1..Len(remote.resolutions) :
    Lower(remote.resolutions[i].name) = Lower(label)

\* C16: when resolve_issue is called, for an existing issue as for a new one, the
\* resolutions have been fetched in this run, and a resolution label the remote
\* service has is found in the table; when update_issue_obj looks a value up, the
\* six fetches have been made.
C16_TablesPopulatedBeforeUse ==
  /\ ConsultsResolutions => Fetched(5) # {}
  /\ (ConsultsResolutions /\ ExistsRemotely(options.resolve)) =>
       find_key(maps.resolutions, options.resolve) # {}
  /\ ConsultsFieldTable => FetchesDone

====
